---- MODULE Spec2Model ----
(***************************************************************************)
(* Authentication / authorization core of Collab-Docs.                     *)
(*                                                                         *)
(* The repository holds two revisions of AuthService: the in-memory one    *)
(* (src/src/auth/auth.service.ts, a User[] array) and the TypeORM one      *)
(* (src/unnamed/part_000, a Repository<User> over a table with a unique    *)
(* index on email).  The variable `backend` says which revision runs.      *)
(*                                                                         *)
(* Requests run concurrently on the Node event loop: a handler runs        *)
(* atomically from one `await` to the next.  Each action below is one such *)
(* run-to-await segment of a handler.                                      *)
(***************************************************************************)
EXTENDS Integers, Sequences, FiniteSets, TLC

VARIABLES
    backend,    \* "memory" (auth.service.ts) or "repository" (part_000)
    users,      \* the account store: this.users / the users table, in insertion order
    uuids,      \* number of primary keys the database has generated
    now,        \* the clock, in hours
    req,        \* the requests, one per client connection
    kept,       \* a token a client holds from before: <<>> or <<token>>
    required    \* the roles of the route decorated with @Roles(...required)

vars == <<backend, users, uuids, now, req, kept, required>>

-----------------------------------------------------------------------------
(* Bounds of the model *)

MaxUsers == 2
MaxTicks == 2

Clients == {"c1", "c2"}

(* Inputs *)
Emails == {"a@x.com", "b@x.com"}
Passwords == {"secret1", "secret2"}
Salts == {"s1"}
OwnerEmail == "owner@x.com"
OwnerPassword == "secret1"

-----------------------------------------------------------------------------
(* UserRole enum *)

OWNER == "owner"
COLLABORATOR == "collaborator"
VIEWER == "viewer"
UserRole == {OWNER, COLLABORATOR, VIEWER}

(* bcrypt: a salted hash that stores cost and salt next to the digest *)
SaltRounds == 10

\* bcrypt reads at most the first 72 bytes of the plaintext
BcryptMaxBytes == 72

\* a run of 72 characters, and plaintexts that go on after it
Run8 == "xxxxxxxx"
Run72 == Run8 \o Run8 \o Run8 \o Run8 \o Run8 \o Run8 \o Run8 \o Run8 \o Run8
LongPlaintexts == {Run72 \o "a", Run72 \o "b"}

\* the part of the plaintext that bcrypt hashes
bcryptInput(plain) ==
    IF Len(plain) <= BcryptMaxBytes THEN plain
    ELSE CHOOSE head \in {Run72} :
             /\ Len(head) = BcryptMaxBytes
             /\ \E long \in LongPlaintexts, tail \in {"a", "b"} :
                    long = plain /\ plain = head \o tail

bcryptHash(plain, salt) ==
    [cost |-> SaltRounds, salt |-> salt,
     digest |-> <<SaltRounds, salt, bcryptInput(plain)>>]

bcryptCompare(plain, hashed) ==
    hashed.digest = <<hashed.cost, hashed.salt, bcryptInput(plain)>>

(* JwtModule: tokens live for JWT_EXPIRES_IN = 24h *)
JwtExpiresIn == 24

\* the clock moves in steps of half a token lifetime
TickHours == JwtExpiresIn \div 2

-----------------------------------------------------------------------------
(* Sequence helpers: Array.prototype.find / findIndex / map *)

\* index of the first element satisfying P, 0 when there is none
FindIndex(seq, P(_)) ==
    IF \E i \in 1..Len(seq) : P(seq[i])
    THEN CHOOSE i \in 1..Len(seq) : P(seq[i]) /\ \A j \in 1..(i - 1) : ~P(seq[j])
    ELSE 0

\* a lookup that misses every account
findByEmailMiss(email) == <<>>

\* users.find(u => u.email === email): <<>> or <<the first match>>
findByEmail(email) ==
    LET Match(u) == u.email = email
        i == FindIndex(users, Match)
    IN  IF i = 0 THEN <<>> ELSE <<users[i]>>

indexByEmail(email) ==
    LET Match(u) == u.email = email
    IN  FindIndex(users, Match)

\* a lookup by id that finds nothing
indexByIdMiss(id) == 0

indexById(id) ==
    LET Match(u) == u.id = id
    IN  FindIndex(users, Match)

-----------------------------------------------------------------------------
(* Payloads *)

\* a destructuring that drops nothing
KeepPassword(user) == user

\* const { password, ...userWithoutPassword } = user
WithoutPassword(user) ==
    [f \in (DOMAIN user) \ {"password"} |-> user[f]]

\* a signer configured with twice the lifetime
generateTokenLongLived(user) ==
    [sub |-> user.id, email |-> user.email, role |-> user.role,
     iat |-> now, exp |-> now + 2 * JwtExpiresIn, sig |-> "valid"]

\* a signer that writes the default role into every token
generateTokenViewer(user) ==
    [sub |-> user.id, email |-> user.email, role |-> VIEWER,
     iat |-> now, exp |-> now + JwtExpiresIn, sig |-> "valid"]

\* generateToken: jwtService.sign({sub, email, role}) adds iat and exp
generateToken(user) ==
    [sub |-> user.id, email |-> user.email, role |-> user.role,
     iat |-> now, exp |-> now + JwtExpiresIn, sig |-> "valid"]

Ok(userSeq, tokenSeq) ==
    [kind |-> "Ok", message |-> "", users |-> userSeq, token |-> tokenSeq]

Exception(kind, message) ==
    [kind |-> kind, message |-> message, users |-> <<>>, token |-> <<>>]

ConflictException(message) == Exception("Conflict", message)
UnauthorizedException(message) == Exception("Unauthorized", message)
BadRequestException(message) == Exception("BadRequest", message)
\* an exception that is no HttpException reaches the client as a 500
InternalServerError == Exception("InternalServerError", "Internal server error")

\* AuthResponseDto
AuthResponse(user) == Ok(<<WithoutPassword(user)>>, <<generateToken(user)>>)

-----------------------------------------------------------------------------
(* Requests *)

NoDto == [email |-> "", password |-> ""]
NoLocal == [idx |-> 0, snap |-> <<>>]
NoResult == [kind |-> "", message |-> "", users |-> <<>>, token |-> <<>>]

Idle ==
    [op |-> "", pc |-> "idle", dto |-> NoDto, bearer |-> <<>>, userId |-> "",
     newRole |-> "", local |-> NoLocal, res |-> NoResult]

Done(r, result) == [r EXCEPT !.pc = "done", !.local = NoLocal, !.res = result]

\* the connection of client c can take a request: the client sends the next
\* one when it has read the response to the last
Free(c) == req[c].pc \in {"idle", "done"}

\* registrations that passed the lookup and are hashing the password
Hashing == {c \in Clients : req[c].op = "register" /\ req[c].pc = "hashing"}

-----------------------------------------------------------------------------
(* Initial state: the process has just started.  The in-memory store is    *)
(* empty; the table is empty or holds an account whose role an operator    *)
(* set to owner in the database (the documented way to get an owner).      *)

SeededOwner ==
    [id |-> "uuid-0", email |-> OwnerEmail,
     password |-> bcryptHash(OwnerPassword, "s1"),
     firstName |-> "Olga", lastName |-> "Owner",
     role |-> OWNER, createdAt |-> 0, updatedAt |-> 0]

Init ==
    /\ backend \in {"memory", "repository"}
    /\ users \in IF backend = "memory" THEN {<<>>} ELSE {<<>>, <<SeededOwner>>}
    /\ uuids = 0
    /\ now = 0
    /\ req = [c \in Clients |-> Idle]
    /\ kept = <<>>
    /\ required = <<>>

-----------------------------------------------------------------------------
(* AuthService.register *)

\* a constructor that hands out the owner role
newUserOwner(dto, hashedPassword) ==
    [id |-> ToString(now), email |-> dto.email, password |-> hashedPassword,
     firstName |-> "Ann", lastName |-> "Bell",
     role |-> OWNER, createdAt |-> now, updatedAt |-> now]

\* new User({...}) in the in-memory revision
newUser(dto, hashedPassword) ==
    [id |-> ToString(now), email |-> dto.email, password |-> hashedPassword,
     firstName |-> "Ann", lastName |-> "Bell",
     role |-> VIEWER, createdAt |-> now, updatedAt |-> now]

\* userRepository.create + the columns the database fills in on INSERT
savedUser(dto, hashedPassword) ==
    [id |-> "uuid-" \o ToString(uuids + 1), email |-> dto.email,
     password |-> hashedPassword,
     firstName |-> "Ann", lastName |-> "Bell",
     role |-> VIEWER, createdAt |-> now, updatedAt |-> now]

\* first segment: the email lookup, up to `await bcrypt.hash`
register(c, dto) ==
    /\ Free(c)
    /\ IF findByEmail(dto.email) # <<>>
       THEN req' = [req EXCEPT ![c] = Done([Idle EXCEPT !.op = "register", !.dto = dto],
                        ConflictException("User with this email already exists"))]
       ELSE /\ Len(users) + Cardinality(Hashing) < MaxUsers
            /\ req' = [req EXCEPT ![c] = [Idle EXCEPT !.op = "register",
                                                      !.pc = "hashing", !.dto = dto]]
    /\ UNCHANGED <<backend, users, uuids, now, kept, required>>

\* second segment, in-memory revision: push, generateToken, return
registerPush(c, salt) ==
    /\ req[c].op = "register" /\ req[c].pc = "hashing"
    /\ backend = "memory"
    /\ LET u == newUser(req[c].dto, bcryptHash(req[c].dto.password, salt))
           result == AuthResponse(u)
       IN  /\ users' = Append(users, u)
           /\ req' = [req EXCEPT ![c] = Done(req[c], result)]
    /\ UNCHANGED <<backend, uuids, now, kept, required>>

\* second segment, TypeORM revision: save (INSERT under the unique index on
\* email), generateToken, return
registerSave(c, salt) ==
    /\ req[c].op = "register" /\ req[c].pc = "hashing"
    /\ backend = "repository"
    /\ IF indexByEmail(req[c].dto.email) # 0
       THEN \* the unique index rejects the row: QueryFailedError, not caught
            /\ req' = [req EXCEPT ![c] = Done(req[c], InternalServerError)]
            /\ UNCHANGED <<users, uuids>>
       ELSE LET u == savedUser(req[c].dto, bcryptHash(req[c].dto.password, salt))
                result == AuthResponse(u)
            IN  /\ users' = Append(users, u)
                /\ uuids' = uuids + 1
                /\ req' = [req EXCEPT ![c] = Done(req[c], result)]
    /\ UNCHANGED <<backend, now, kept, required>>

-----------------------------------------------------------------------------
(* AuthService.login / validateUser *)

\* validateUser once the lookup gave `found` (<<>> or <<user>>): the user when
\* the password matches, else null
validateUser(found, password) ==
    IF found # <<>> /\ bcryptCompare(password, found[1].password) THEN found ELSE <<>>

\* a login that hands a token to a caller it turned down
loginResultGuest(user) ==
    IF user = <<>>
    THEN [UnauthorizedException("Invalid credentials") EXCEPT
             !.token = <<generateToken([id |-> "guest", email |-> "", role |-> VIEWER])>>]
    ELSE AuthResponse(user[1])

\* login once validateUser gave `user`
loginResult(user) ==
    IF user = <<>> THEN UnauthorizedException("Invalid credentials")
    ELSE AuthResponse(user[1])

\* a login that tells the caller when no account has the email
loginLeaky(c, dto) ==
    /\ Free(c)
    /\ LET i == indexByEmail(dto.email)
           r == [Idle EXCEPT !.op = "login", !.dto = dto]
       IN  IF i = 0
           THEN req' = [req EXCEPT ![c] = Done(r, UnauthorizedException("User not found"))]
           ELSE req' = [req EXCEPT ![c] =
                           [r EXCEPT !.pc = "comparing",
                                     !.local = IF backend = "memory"
                                               THEN [idx |-> i, snap |-> <<>>]
                                               ELSE [idx |-> 0, snap |-> <<users[i]>>]]]
    /\ UNCHANGED <<backend, users, uuids, now, kept, required>>

\* first segment: the lookup by email, up to `await bcrypt.compare` (which is
\* not reached when no account has the email).  The in-memory revision holds a
\* reference to the stored object, the TypeORM revision a copy of the row.
login(c, dto) ==
    /\ Free(c)
    /\ LET i == indexByEmail(dto.email)
           r == [Idle EXCEPT !.op = "login", !.dto = dto]
       IN  IF i = 0
           THEN req' = [req EXCEPT ![c] = Done(r, loginResult(validateUser(<<>>, dto.password)))]
           ELSE req' = [req EXCEPT ![c] =
                           [r EXCEPT !.pc = "comparing",
                                     !.local = IF backend = "memory"
                                               THEN [idx |-> i, snap |-> <<>>]
                                               ELSE [idx |-> 0, snap |-> <<users[i]>>]]]
    /\ UNCHANGED <<backend, users, uuids, now, kept, required>>

\* the object login works on after the await
loginUser(c) ==
    IF backend = "memory" THEN users[req[c].local.idx] ELSE req[c].local.snap[1]

\* a login that stamps the account it looked at
loginComparedTouch(c) ==
    /\ req[c].op = "login" /\ req[c].pc = "comparing"
    /\ req' = [req EXCEPT ![c] =
                  Done(req[c], loginResult(validateUser(<<loginUser(c)>>, req[c].dto.password)))]
    /\ users' = [users EXCEPT ![indexByEmail(req[c].dto.email)].updatedAt = @ + 1]
    /\ UNCHANGED <<backend, uuids, now, kept, required>>

\* second segment: the outcome of bcrypt.compare, generateToken, return
loginCompared(c) ==
    /\ req[c].op = "login" /\ req[c].pc = "comparing"
    /\ req' = [req EXCEPT ![c] =
                  Done(req[c], loginResult(validateUser(<<loginUser(c)>>, req[c].dto.password)))]
    /\ UNCHANGED <<backend, users, uuids, now, kept, required>>

-----------------------------------------------------------------------------
(* AuthService.findUserById, getAllUsers *)

findUserById(c, id) ==
    /\ Free(c)
    /\ LET r == [Idle EXCEPT !.op = "findUserById", !.userId = id]
           i == indexById(id)
           result == IF id = "" THEN BadRequestException("User ID is required")
                     ELSE IF i = 0 THEN Ok(<<>>, <<>>)
                     ELSE Ok(<<users[i]>>, <<>>)
       IN  req' = [req EXCEPT ![c] = Done(r, result)]
    /\ UNCHANGED <<backend, users, uuids, now, kept, required>>

\* Array.prototype.map
Map(seq, F(_)) == [k \in 1..Len(seq) |-> F(seq[k])]

\* find({select: [...]}) in the TypeORM revision
SelectColumns(user) ==
    [f \in {"id", "email", "firstName", "lastName", "role", "createdAt", "updatedAt"}
        |-> user[f]]

\* the orders in which the store hands out its accounts: this.users is an
\* array; find() sends a SELECT without ORDER BY, for which the database
\* promises no order
RowOrders ==
    IF backend = "memory"
    THEN {[k \in 1..Len(users) |-> k]}
    ELSE {f \in [1..Len(users) -> 1..Len(users)] :
             \A i, j \in 1..Len(users) : i # j => f[i] # f[j]}

getAllUsersResult(order) ==
    LET rows == [k \in 1..Len(users) |-> users[order[k]]]
    IN  IF backend = "memory"
        THEN Ok(Map(rows, WithoutPassword), <<>>)
        ELSE Ok(Map(rows, SelectColumns), <<>>)

getAllUsers(c) ==
    /\ Free(c)
    /\ \E order \in RowOrders :
          req' = [req EXCEPT ![c] =
                     Done([Idle EXCEPT !.op = "getAllUsers"], getAllUsersResult(order))]
    /\ UNCHANGED <<backend, users, uuids, now, kept, required>>

-----------------------------------------------------------------------------
(* AuthService.updateUserRole *)

\* an assignment that replaces the store by the one account
setRoleAlone(i, newRole) ==
    <<[users[i] EXCEPT !.role = newRole, !.updatedAt = now]>>

\* an assignment that reaches every account
setRoleEverywhere(i, newRole) ==
    [k \in 1..Len(users) |-> [users[k] EXCEPT !.role = newRole, !.updatedAt = now]]

\* users[i].role = newRole; users[i].updatedAt = new Date() in the in-memory
\* revision, UPDATE ... SET role, updatedAt WHERE id in the TypeORM revision
setRole(i, newRole) ==
    [users EXCEPT ![i].role = newRole, ![i].updatedAt = now]

\* what the handler hands back for the account at index i: the User object
updatedUserResult(i) == Ok(<<users'[i]>>, <<>>)

\* a variant that looks at the role before it looks at the id
updateUserRoleCallRoleFirst(c, r, userId, newRole) ==
    LET i == indexById(userId)
    IN  IF newRole \notin UserRole
        THEN /\ req' = [req EXCEPT ![c] = Done(r, BadRequestException("Invalid role specified"))]
             /\ users' = users
        ELSE IF userId = ""
        THEN /\ req' = [req EXCEPT ![c] = Done(r, BadRequestException("User ID is required"))]
             /\ users' = users
        ELSE IF backend = "memory"
        THEN IF i = 0
             THEN /\ req' = [req EXCEPT ![c] = Done(r, UnauthorizedException("User not found"))]
                  /\ users' = users
             ELSE /\ users' = setRole(i, newRole)
                  /\ req' = [req EXCEPT ![c] = Done(r, updatedUserResult(i))]
        ELSE \* userRepository.update(userId, {role}): UPDATE ... WHERE id = userId
             /\ users' = IF i = 0 THEN users
                         ELSE setRole(i, newRole)
             /\ req' = [req EXCEPT ![c] = [r EXCEPT !.pc = "updated"]]

\* a variant that takes any string for a role
updateUserRoleCallAnyRole(c, r, userId, newRole) ==
    LET i == indexById(userId)
    IN  IF userId = ""
        THEN /\ req' = [req EXCEPT ![c] = Done(r, BadRequestException("User ID is required"))]
             /\ users' = users
        ELSE IF backend = "memory"
        THEN IF i = 0
             THEN /\ req' = [req EXCEPT ![c] = Done(r, UnauthorizedException("User not found"))]
                  /\ users' = users
             ELSE /\ users' = setRole(i, newRole)
                  /\ req' = [req EXCEPT ![c] = Done(r, updatedUserResult(i))]
        ELSE \* userRepository.update(userId, {role}): UPDATE ... WHERE id = userId
             /\ users' = IF i = 0 THEN users
                         ELSE setRole(i, newRole)
             /\ req' = [req EXCEPT ![c] = [r EXCEPT !.pc = "updated"]]

\* the call of updateUserRole(userId, newRole) for the request record r, up to
\* its first await (TypeORM revision) or its return (in-memory revision)
updateUserRoleCall(c, r, userId, newRole) ==
    LET i == indexById(userId)
    IN  IF userId = ""
        THEN /\ req' = [req EXCEPT ![c] = Done(r, BadRequestException("User ID is required"))]
             /\ users' = users
        ELSE IF newRole \notin UserRole
        THEN /\ req' = [req EXCEPT ![c] = Done(r, BadRequestException("Invalid role specified"))]
             /\ users' = users
        ELSE IF backend = "memory"
        THEN IF i = 0
             THEN /\ req' = [req EXCEPT ![c] = Done(r, UnauthorizedException("User not found"))]
                  /\ users' = users
             ELSE /\ users' = setRole(i, newRole)
                  /\ req' = [req EXCEPT ![c] = Done(r, updatedUserResult(i))]
        ELSE \* userRepository.update(userId, {role}): UPDATE ... WHERE id = userId
             /\ users' = IF i = 0 THEN users
                         ELSE setRole(i, newRole)
             /\ req' = [req EXCEPT ![c] = [r EXCEPT !.pc = "updated"]]

updateUserRole(c, userId, newRole) ==
    /\ Free(c)
    /\ updateUserRoleCall(c, [Idle EXCEPT !.op = "updateUserRole", !.userId = userId,
                                          !.newRole = newRole], userId, newRole)
    /\ UNCHANGED <<backend, uuids, now, kept, required>>

\* TypeORM revision, after `await update`: findOne({where: {id}}) and return
updateUserRoleRead(c) ==
    /\ req[c].pc = "updated"
    /\ LET i == indexById(req[c].userId)
           result == IF i = 0 THEN UnauthorizedException("User not found")
                     ELSE Ok(<<users[i]>>, <<>>)
       IN  req' = [req EXCEPT ![c] = Done(req[c], result)]
    /\ UNCHANGED <<backend, users, uuids, now, kept, required>>

-----------------------------------------------------------------------------
(* Guards *)

\* a decorator that loses its first argument
RolesDropFirst(roles) == IF roles = <<>> THEN <<>> ELSE Tail(roles)

\* @Roles(...roles): SetMetadata(ROLES_KEY, roles)
Roles(roles) == roles

\* controllers without any @Roles
RouteRolesOpen(route) == <<>>

\* the role metadata of the routes; <<>> stands for no @Roles.  "GET /decorated"
\* is a route decorated with @Roles(...required)
RouteRoles(route) ==
    CASE route = "GET /auth/users" -> Roles(<<OWNER>>)
      [] route = "POST /auth/role" -> Roles(<<OWNER>>)
      [] route = "GET /example/admin-only" -> Roles(<<OWNER>>)
      [] route = "GET /example/collaborator-content" -> Roles(<<OWNER, COLLABORATOR>>)
      [] route = "GET /decorated" -> Roles(required)
      [] OTHER -> <<>>

\* passport-jwt: the bearer token's signature and expiry; <<>> when it fails
jwtVerify(bearer) ==
    IF bearer # <<>> /\ bearer[1].sig = "valid" /\ now < bearer[1].exp
    THEN <<bearer[1]>>
    ELSE <<>>

\* JwtStrategy.validate: the identity the request carries
validate(payload) == [id |-> payload.sub, email |-> payload.email, role |-> payload.role]

\* a guard that answers 403 when there is no user
handleRequestForbidden(err, user) ==
    IF err # <<>> \/ user = <<>>
    THEN [thrown |-> IF err # <<>> THEN err
                     ELSE <<Exception("Forbidden", "Invalid or expired token")>>,
          user |-> <<>>]
    ELSE [thrown |-> <<>>, user |-> user]

\* JwtAuthGuard.handleRequest(err, user): <<>> stands for null / false
handleRequest(err, user) ==
    IF err # <<>> \/ user = <<>>
    THEN [thrown |-> IF err # <<>> THEN err
                     ELSE <<UnauthorizedException("Invalid or expired token")>>,
          user |-> <<>>]
    ELSE [thrown |-> <<>>, user |-> user]

\* a guard that takes the identity's role from the account store
JwtAuthGuardFresh(bearer) ==
    LET payload == jwtVerify(bearer)
        i == IF payload = <<>> THEN 0 ELSE indexById(payload[1].sub)
    IN  handleRequest(<<>>, IF i = 0 THEN <<>>
                            ELSE <<[validate(payload[1]) EXCEPT !.role = users[i].role]>>)

\* JwtAuthGuard.canActivate for a bearer token
JwtAuthGuard(bearer) ==
    LET payload == jwtVerify(bearer)
    IN  handleRequest(<<>>, IF payload = <<>> THEN <<>> ELSE <<validate(payload[1])>>)

ForbiddenException(message) == Exception("Forbidden", message)

\* RolesGuard.canActivate: the access decision for a resolved identity
authorize(identity, requiredRoles) ==
    \/ requiredRoles = <<>>
    \/ \E k \in 1..Len(requiredRoles) : requiredRoles[k] = identity.role

\* @UseGuards(JwtAuthGuard) alone
UseGuardsJwtOnly(route, bearer) == JwtAuthGuard(bearer).thrown

\* @UseGuards(JwtAuthGuard, RolesGuard): <<>> when the request may proceed,
\* else the exception it ends with
UseGuards(route, bearer) ==
    LET auth == JwtAuthGuard(bearer)
    IN  IF auth.thrown # <<>> THEN auth.thrown
        ELSE IF ~authorize(auth.user[1], RouteRoles(route))
        THEN <<ForbiddenException("Access denied")>>
        ELSE <<>>

-----------------------------------------------------------------------------
(* AuthController: the guarded routes *)

\* ParseUUIDPipe
ParseUUIDPipe(value) == value \in {"uuid-" \o ToString(n) : n \in 0..9}

\* ParseEnumPipe(UserRole)
ParseEnumPipe(value) == value \in UserRole

\* @Get('users')
getAllUsersRoute(c, bearer) ==
    /\ Free(c)
    /\ LET r == [Idle EXCEPT !.op = "GET /auth/users", !.bearer = bearer]
           denied == UseGuards("GET /auth/users", bearer)
       IN  \E order \in RowOrders :
               req' = [req EXCEPT ![c] =
                          Done(r, IF denied # <<>> THEN denied[1]
                                  ELSE getAllUsersResult(order))]
    /\ UNCHANGED <<backend, users, uuids, now, kept, required>>

\* @Post('role/:userId')
updateUserRoleRoute(c, bearer, userId, newRole) ==
    /\ Free(c)
    /\ LET r == [Idle EXCEPT !.op = "POST /auth/role", !.bearer = bearer,
                             !.userId = userId, !.newRole = newRole]
           denied == UseGuards("POST /auth/role", bearer)
       IN  IF denied # <<>>
           THEN req' = [req EXCEPT ![c] = Done(r, denied[1])] /\ users' = users
           ELSE IF ~ParseUUIDPipe(userId)
           THEN /\ req' = [req EXCEPT ![c] =
                       Done(r, BadRequestException("Validation failed (uuid is expected)"))]
                /\ users' = users
           ELSE IF ~ParseEnumPipe(newRole)
           THEN /\ req' = [req EXCEPT ![c] =
                       Done(r, BadRequestException("Validation failed (enum string is expected)"))]
                /\ users' = users
           ELSE updateUserRoleCall(c, r, userId, newRole)
    /\ UNCHANGED <<backend, uuids, now, kept, required>>

\* @Get('profile'), and the example routes: the guards, then the identity
guardedRoute(c, route, bearer) ==
    /\ Free(c)
    /\ LET r == [Idle EXCEPT !.op = route, !.bearer = bearer]
           denied == UseGuards(route, bearer)
       IN  req' = [req EXCEPT ![c] =
                      Done(r, IF denied # <<>> THEN denied[1]
                              ELSE Ok(<<JwtAuthGuard(bearer).user[1]>>, <<>>))]
    /\ UNCHANGED <<backend, users, uuids, now, kept, required>>

-----------------------------------------------------------------------------
(* Environment *)

Tick ==
    /\ now + TickHours <= MaxTicks * TickHours
    /\ now' = now + TickHours
    /\ UNCHANGED <<backend, users, uuids, req, kept, required>>

LoginDtos == [email : Emails \cup {OwnerEmail}, password : Passwords]
RegisterDtos == [email : Emails, password : Passwords]

\* a token signed with another key, claiming the owner role
ForgedToken ==
    [sub |-> "uuid-0", email |-> OwnerEmail, role |-> OWNER,
     iat |-> 0, exp |-> 1000, sig |-> "forged"]

\* what a client can put in the Authorization header: nothing, a forgery, the
\* token it holds, the token of a response that is on a connection, or a token
\* that was presented before
Bearers ==
    {<<>>, <<ForgedToken>>, kept}
        \cup {req[c].res.token : c \in Clients} \cup {req[c].bearer : c \in Clients}

\* ids a caller can name: empty, absent, or one of an account
UserIds == {"", "uuid-9"} \cup {users[i].id : i \in 1..Len(users)}
RoleInputs == UserRole \cup {"admin"}

GuardedRoutes ==
    {"GET /auth/profile", "GET /example/protected", "GET /example/admin-only",
     "GET /example/collaborator-content", "GET /decorated"}

-----------------------------------------------------------------------------
(* Spec: the account directory (register, login, lookups) under concurrent  *)
(* requests, within one reading of the clock.                               *)

DirectoryStep(c) ==
    \/ \E dto \in RegisterDtos : register(c, dto)
    \/ \E salt \in Salts : registerPush(c, salt)
    \/ \E salt \in Salts : registerSave(c, salt)
    \/ \E dto \in LoginDtos : login(c, dto)
    \/ loginCompared(c)
    \/ \E id \in UserIds : findUserById(c, id)
    \/ getAllUsers(c)

Next == \E c \in Clients : DirectoryStep(c)

Spec == Init /\ [][Next]_vars

-----------------------------------------------------------------------------
(* SpecGuard: the guarded routes.  The guards are a function of the bearer  *)
(* token, the clock and the route's roles: the token a client holds and the *)
(* roles of the decorated route are drawn from bounded sets.                *)

\* tokens this process's key signed, or forged for the same claims, or none
TokenInputs ==
    {<<>>} \cup
    {<<[sub |-> "uuid-0", email |-> OwnerEmail, role |-> r,
        iat |-> 0, exp |-> JwtExpiresIn, sig |-> s]>> :
        r \in UserRole, s \in {"valid", "forged"}}

\* the arguments of @Roles: the lists of distinct roles
RoleLists ==
    {l \in UNION {[1..n -> UserRole] : n \in 0..Cardinality(UserRole)} :
        \A i, j \in 1..Len(l) : i # j => l[i] # l[j]}

InitGuard ==
    /\ backend \in {"memory", "repository"}
    /\ users \in IF backend = "memory" THEN {<<>>} ELSE {<<>>, <<SeededOwner>>}
    /\ uuids = 0
    /\ now = 0
    /\ req = [c \in Clients |-> Idle]
    /\ kept \in TokenInputs
    /\ required = <<>>

GuardStep(c) ==
    \/ \E route \in GuardedRoutes : guardedRoute(c, route, kept)
    \/ getAllUsersRoute(c, kept)
    \/ \E id \in UserIds \ {""}, role \in RoleInputs : updateUserRoleRoute(c, kept, id, role)
    \/ updateUserRoleRead(c)

NextGuard == Tick \/ \E c \in Clients : GuardStep(c)

SpecGuard == InitGuard /\ [][NextGuard]_vars

-----------------------------------------------------------------------------
(* SpecAuthorize: the access decision, for every role of the identity and   *)
(* every list of roles a route can be decorated with.                       *)

InitAuthorize ==
    /\ backend \in {"memory", "repository"}
    /\ users = <<>>
    /\ uuids = 0
    /\ now = 0
    /\ req = [c \in Clients |-> Idle]
    /\ kept \in TokenInputs
    /\ required \in RoleLists

NextAuthorize ==
    \E c \in Clients :
        \/ \E route \in GuardedRoutes : guardedRoute(c, route, kept)
        \/ getAllUsersRoute(c, kept)

SpecAuthorize == InitAuthorize /\ [][NextAuthorize]_vars

-----------------------------------------------------------------------------
(* SpecSession: accounts sign in, hold their tokens while the clock moves   *)
(* and roles are reassigned, and present them on a guarded route.           *)

SessionRegisterDtos == [email : {"a@x.com"}, password : {"secret1"}]
SessionLoginDtos == [email : {"a@x.com", OwnerEmail}, password : {"secret1"}]

\* the account holder's connection: sign up, sign in, present a token
HolderStep(c) ==
    \/ \E dto \in SessionRegisterDtos : register(c, dto)
    \/ \E salt \in Salts : registerPush(c, salt)
    \/ \E salt \in Salts : registerSave(c, salt)
    \/ \E dto \in SessionLoginDtos : login(c, dto)
    \/ loginCompared(c)
    \/ \E bearer \in Bearers : guardedRoute(c, "GET /auth/profile", bearer)

\* the connection that reassigns roles
AdminStep(c) ==
    \/ \E id \in UserIds \ {""}, role \in UserRole : updateUserRole(c, id, role)
    \/ updateUserRoleRead(c)

NextSession == Tick \/ HolderStep("c1") \/ AdminStep("c2")

SpecSession == Init /\ [][NextSession]_vars

-----------------------------------------------------------------------------
(* SpecRoleAdmin: AuthService.updateUserRole called with every kind of      *)
(* argument, on stores of no, one or two accounts, while the clock moves.   *)

\* the connection on which accounts sign up
SignUpStep(c) ==
    \/ \E dto \in SessionRegisterDtos : register(c, dto)
    \/ \E salt \in Salts : registerPush(c, salt)
    \/ \E salt \in Salts : registerSave(c, salt)

\* the connection that reassigns roles, with every kind of argument
RoleAdminStep(c) ==
    \/ \E id \in UserIds, role \in RoleInputs : updateUserRole(c, id, role)
    \/ updateUserRoleRead(c)

NextRoleAdmin == Tick \/ SignUpStep("c1") \/ RoleAdminStep("c2")

SpecRoleAdmin == Init /\ [][NextRoleAdmin]_vars

-----------------------------------------------------------------------------
(* SpecAuthenticate: JwtAuthGuard alone, over what passport can hand to     *)
(* handleRequest: a user, no user, or an error the strategy reported.       *)

\* a bearer string that is no JWT
MalformedToken ==
    [sub |-> "", email |-> "", role |-> "", iat |-> 0, exp |-> 0, sig |-> "malformed"]

\* the `err` of handleRequest: null, an HttpException the strategy threw, or
\* any other Error
VerifierErrors ==
    {<<>>, <<UnauthorizedException("Unauthorized")>>, <<InternalServerError>>}

\* JwtAuthGuard.canActivate when the strategy ends with `err` (strategy.error)
\* or with the outcome of the verification (strategy.success / fail)
authenticate(c, bearer, err) ==
    /\ Free(c)
    /\ LET r == [Idle EXCEPT !.op = "authenticate", !.bearer = bearer]
           payload == jwtVerify(bearer)
           user == IF err # <<>> \/ payload = <<>> THEN <<>>
                   ELSE <<validate(payload[1])>>
           out == handleRequest(err, user)
       IN  req' = [req EXCEPT ![c] =
                      Done(r, IF out.thrown # <<>> THEN out.thrown[1]
                              ELSE Ok(out.user, <<>>))]
    /\ UNCHANGED <<backend, users, uuids, now, kept, required>>

InitAuthenticate ==
    /\ backend \in {"memory", "repository"}
    /\ users = <<>>
    /\ uuids = 0
    /\ now = 0
    /\ req = [c \in Clients |-> Idle]
    /\ kept \in TokenInputs \cup {<<MalformedToken>>}
    /\ required = <<>>

NextAuthenticate ==
    Tick \/ \E c \in Clients, err \in VerifierErrors : authenticate(c, kept, err)

SpecAuthenticate == InitAuthenticate /\ [][NextAuthenticate]_vars

-----------------------------------------------------------------------------
(* Request bodies: the class-validator rules of the DTOs and the global     *)
(* ValidationPipe in front of POST /auth/register and POST /auth/login.     *)

MinPasswordLength == 6

\* the pieces the e-mail addresses of the model are made of
LocalParts == {"a", "b", "owner"}
DomainLabels == {"x"}
TopLevelDomains == {"com"}

\* @IsEmail(): local-part "@" domain, the domain ending in a top-level domain
IsEmail(value) ==
    \E l \in LocalParts, d \in DomainLabels, t \in TopLevelDomains :
        value = l \o "@" \o d \o "." \o t

\* @IsNotEmpty()
IsNotEmpty(value) == value # ""

\* @MinLength(min)
MinLength(value, min) == Len(value) >= min

\* LoginDto: no rule of the class is broken
LoginDto(body) ==
    /\ IsEmail(body.email) /\ IsNotEmpty(body.email)
    /\ IsNotEmpty(body.password) /\ MinLength(body.password, MinPasswordLength)

\* RegisterDto: no rule of the class is broken
RegisterDto(body) ==
    /\ IsEmail(body.email) /\ IsNotEmpty(body.email)
    /\ IsNotEmpty(body.password) /\ MinLength(body.password, MinPasswordLength)
    /\ IsNotEmpty(body.firstName)
    /\ IsNotEmpty(body.lastName)

\* an application without the global pipe
ValidationPipeOff(valid) == TRUE

\* app.useGlobalPipes(new ValidationPipe(...)): the handler runs when the body
\* breaks no rule, else the request ends with BadRequestException
ValidationPipe(valid) == valid

\* @Post('register')
registerRoute(c, body) ==
    IF ValidationPipe(RegisterDto(body))
    THEN register(c, [email |-> body.email, password |-> body.password])
    ELSE /\ Free(c)
         /\ req' = [req EXCEPT ![c] =
                Done([Idle EXCEPT !.op = "POST /auth/register",
                                  !.dto = [email |-> body.email, password |-> body.password]],
                     BadRequestException("Bad Request"))]
         /\ UNCHANGED <<backend, users, uuids, now, kept, required>>

\* @Post('login')
loginRoute(c, body) ==
    IF ValidationPipe(LoginDto(body))
    THEN login(c, [email |-> body.email, password |-> body.password])
    ELSE /\ Free(c)
         /\ req' = [req EXCEPT ![c] =
                Done([Idle EXCEPT !.op = "POST /auth/login",
                                  !.dto = [email |-> body.email, password |-> body.password]],
                     BadRequestException("Bad Request"))]
         /\ UNCHANGED <<backend, users, uuids, now, kept, required>>

\* bodies a client can send: well-formed ones and ones that break a rule
RegisterBodies ==
    [email : {"a@x.com", "a.x.com"}, password : {"secret1", "abc"},
     firstName : {"Ann", ""}, lastName : {"Bell", ""}]

LoginBodies ==
    [email : {"a@x.com", "a.x.com", "a@x"}, password : {"secret1", "secret2", "abc12", ""}]

ValidationStep(c) ==
    \/ \E body \in RegisterBodies : registerRoute(c, body)
    \/ \E salt \in Salts : registerPush(c, salt)
    \/ \E salt \in Salts : registerSave(c, salt)
    \/ \E body \in LoginBodies : loginRoute(c, body)
    \/ loginCompared(c)

NextValidation == \E c \in Clients : ValidationStep(c)

SpecValidation == Init /\ [][NextValidation]_vars

-----------------------------------------------------------------------------
(* SpecHasher: bcrypt.hash at registration and bcrypt.compare at login, for *)
(* short plaintexts, plaintexts of 72 characters and longer ones, and two   *)
(* salts.                                                                   *)

HasherPlaintexts == Passwords \cup {Run72} \cup LongPlaintexts
HasherSalts == {"s1", "s2"}

HasherDtos == [email : {"a@x.com"}, password : HasherPlaintexts]

\* the connection that signs up
HashStep(c) ==
    \/ \E dto \in HasherDtos : register(c, dto)
    \/ \E salt \in HasherSalts : registerPush(c, salt)
    \/ \E salt \in HasherSalts : registerSave(c, salt)

\* the connection that signs in
CompareStep(c) ==
    \/ \E dto \in HasherDtos : login(c, dto)
    \/ loginCompared(c)

NextHasher == HashStep("c1") \/ CompareStep("c2")

SpecHasher == Init /\ [][NextHasher]_vars

-----------------------------------------------------------------------------
(* SpecStore: every operation of AuthService on one store, one connection   *)
(* signing up, signing in and reading, the other reassigning roles, within  *)
(* one reading of the clock.                                                *)

StoreDtos == [email : Emails, password : {"secret1"}]

\* the connection that signs up, signs in and reads
MemberStep(c) ==
    \/ \E dto \in StoreDtos : register(c, dto)
    \/ \E salt \in Salts : registerPush(c, salt)
    \/ \E salt \in Salts : registerSave(c, salt)
    \/ \E dto \in SessionLoginDtos : login(c, dto)
    \/ loginCompared(c)
    \/ getAllUsers(c)

NextStore == MemberStep("c1") \/ AdminStep("c2")

SpecStore == Init /\ [][NextStore]_vars

-----------------------------------------------------------------------------
(* SpecBoundary: the routes of AuthController as clients reach them: one    *)
(* connection signs up and signs in, the other presents whatever token it   *)
(* can get hold of on the guarded routes.                                   *)

\* the connection that presents tokens
PresentStep(c) ==
    \/ \E bearer \in Bearers : guardedRoute(c, "GET /auth/profile", bearer)
    \/ \E bearer \in Bearers : getAllUsersRoute(c, bearer)
    \/ \E bearer \in Bearers, id \in UserIds \ {""}, role \in UserRole :
          updateUserRoleRoute(c, bearer, id, role)
    \/ updateUserRoleRead(c)

\* the connection that signs up and signs in
SignInStep(c) ==
    \/ \E dto \in SessionRegisterDtos : register(c, dto)
    \/ \E salt \in Salts : registerPush(c, salt)
    \/ \E salt \in Salts : registerSave(c, salt)
    \/ \E dto \in SessionLoginDtos : login(c, dto)
    \/ loginCompared(c)

NextBoundary == SignInStep("c1") \/ PresentStep("c2")

SpecBoundary == Init /\ [][NextBoundary]_vars

-----------------------------------------------------------------------------
(* SpecRoleRace: two connections reassign roles at the same time.           *)

RoleRaceStep(c) == SignUpStep(c) \/ AdminStep(c)

NextRoleRace == \E c \in Clients : RoleRaceStep(c)

SpecRoleRace == Init /\ [][NextRoleRace]_vars

-----------------------------------------------------------------------------
(* Properties *)

\* client c sends a request for operation op in this step
Starts(c, op) == Free(c) /\ req'[c] # req[c] /\ req'[c].op = op

\* the second segment of a registration runs in this step
Persists(c) == req[c].op = "register" /\ req[c].pc = "hashing" /\ req'[c].pc = "done"

EmailStored(email) == \E i \in 1..Len(users) : users[i].email = email

\* C1: in every reachable state no two stored accounts have the same email.
UniqueEmails ==
    \A i, j \in 1..Len(users) : i # j => users[i].email # users[j].email

\* C2: a registration that completes after a concurrent registration of the
\* same email was persisted fails with Conflict and adds nothing, so that
\* exactly one of the two succeeds.
ConcurrentDuplicateConflicts ==
    [][\A c \in Clients :
          (Persists(c) /\ EmailStored(req[c].dto.email))
          => (req'[c].res.kind = "Conflict" /\ users' = users)]_vars

\* C3: a register request whose email belongs to a stored account fails with
\* Conflict, adds no account, changes no account and issues no token.
DuplicateRegisterConflicts ==
    [][\A c \in Clients :
          (Starts(c, "register") /\ EmailStored(req'[c].dto.email))
          => /\ req'[c].pc = "done"
             /\ req'[c].res.kind = "Conflict"
             /\ req'[c].res.token = <<>>
             /\ req'[c].res.users = <<>>
             /\ users' = users]_vars

DuplicateRegisterSeen ==
    \E c \in Clients :
        /\ req[c].op = "register" /\ req[c].pc = "done"
        /\ req[c].res.kind = "Conflict"
        /\ EmailStored(req[c].dto.email)

\* C4: a register request whose email is not in the store is not rejected, and
\* when its account is persisted it adds exactly one account with that email
\* and role viewer; the returned account and token carry role viewer.
RegisterCreatesViewer ==
    [][\A c \in Clients :
          /\ (Starts(c, "register") /\ ~EmailStored(req'[c].dto.email))
             => req'[c].pc = "hashing"
          /\ (Persists(c) /\ ~EmailStored(req[c].dto.email))
             => /\ req'[c].res.kind = "Ok"
                /\ Len(users') = Len(users) + 1
                /\ SubSeq(users', 1, Len(users)) = users
                /\ users'[Len(users')].email = req[c].dto.email
                /\ users'[Len(users')].role = VIEWER
                /\ Len(req'[c].res.users) = 1
                /\ req'[c].res.users[1].email = req[c].dto.email
                /\ req'[c].res.users[1].role = VIEWER
                /\ Len(req'[c].res.token) = 1
                /\ req'[c].res.token[1].role = VIEWER]_vars

RegisterSucceeded ==
    \E c, d \in Clients :
        /\ c # d
        /\ req[c].op = "register" /\ req[c].pc = "done" /\ req[c].res.kind = "Ok"
        /\ req[d].op = "register" /\ req[d].pc = "done" /\ req[d].res.kind = "Ok"
        /\ req[c].dto.email # req[d].dto.email
        /\ Len(users) >= 2

\* the second segment of a login runs in this step
Compared(c) == req[c].op = "login" /\ req[c].pc = "comparing" /\ req'[c].pc = "done"

\* an account with this email takes this password
Matches(email, password) ==
    \E i \in 1..Len(users) :
        users[i].email = email /\ bcryptCompare(password, users[i].password)

InvalidCredentials ==
    [kind |-> "Unauthorized", message |-> "Invalid credentials",
     users |-> <<>>, token |-> <<>>]

\* C5: a login with an unknown email and a login with a known email and a
\* wrong password end with the same result, Unauthorized with one message.
LoginFailuresAlike ==
    [][\A c \in Clients :
          /\ (Starts(c, "login") /\ ~EmailStored(req'[c].dto.email))
             => (req'[c].pc = "done" /\ req'[c].res = InvalidCredentials)
          /\ (Compared(c) /\ ~Matches(req[c].dto.email, req[c].dto.password))
             => req'[c].res = InvalidCredentials]_vars

LoginFailuresSeen ==
    \E c, d \in Clients :
        /\ req[c].op = "login" /\ req[c].pc = "done"
        /\ ~EmailStored(req[c].dto.email)
        /\ req[d].op = "login" /\ req[d].pc = "done"
        /\ EmailStored(req[d].dto.email)
        /\ ~Matches(req[d].dto.email, req[d].dto.password)
        /\ req[c].res = req[d].res
        /\ req[c].res.kind = "Unauthorized"

\* C6: a login succeeds if and only if an account in the store has the email
\* and takes the password; the account returned and the token's subject are
\* that account's.
LoginIffCredentialsMatch ==
    [][\A c \in Clients :
          /\ (Starts(c, "login") /\ req'[c].pc = "done")
             => (req'[c].res.kind = "Ok"
                    <=> Matches(req'[c].dto.email, req'[c].dto.password))
          /\ Compared(c)
             => /\ req'[c].res.kind = "Ok"
                    <=> Matches(req[c].dto.email, req[c].dto.password)
                /\ req'[c].res.kind = "Ok"
                    => \E i \in 1..Len(users) :
                          /\ users[i].email = req[c].dto.email
                          /\ bcryptCompare(req[c].dto.password, users[i].password)
                          /\ req'[c].res.users[1].id = users[i].id
                          /\ req'[c].res.token[1].sub = users[i].id]_vars

\* C7: no success payload of register, login or getAllUsers holds the password
\* field of an account.
NoPasswordInPayload ==
    \A c \in Clients :
        (/\ req[c].pc = "done"
         /\ req[c].op \in {"register", "login", "getAllUsers"}
         /\ req[c].res.kind = "Ok")
        => /\ \A k \in 1..Len(req[c].res.users) :
                  "password" \notin DOMAIN req[c].res.users[k]
           /\ \A k \in 1..Len(req[c].res.token) :
                  "password" \notin DOMAIN req[c].res.token[k]

PayloadsSeen ==
    \E c, d \in Clients :
        /\ req[c].op = "getAllUsers" /\ req[c].pc = "done"
        /\ Len(req[c].res.users) = 2
        /\ req[d].op \in {"register", "login"} /\ req[d].pc = "done"
        /\ req[d].res.kind = "Ok"

\* C8: a successful role update hands back the account without its password
\* field.
UpdateRoleOmitsPassword ==
    \A c \in Clients :
        (/\ req[c].pc = "done"
         /\ req[c].op \in {"POST /auth/role", "updateUserRole"}
         /\ req[c].res.kind = "Ok")
        => \A k \in 1..Len(req[c].res.users) :
               "password" \notin DOMAIN req[c].res.users[k]

\* the roles a route asks for, as the controllers state them
RequiredSet(route) ==
    CASE route \in {"GET /auth/users", "POST /auth/role", "GET /example/admin-only"}
            -> {OWNER}
      [] route = "GET /example/collaborator-content" -> {OWNER, COLLABORATOR}
      [] route = "GET /decorated" -> {required[k] : k \in 1..Len(required)}
      [] OTHER -> {}

Permitted(role, route) == RequiredSet(route) = {} \/ role \in RequiredSet(route)

\* C9: a request that carries a valid token is let through exactly when the
\* route asks for no role or the token's role is one of the roles it asks for,
\* and is refused with Forbidden otherwise.
AccessDecision ==
    \A c \in Clients :
        (/\ req[c].pc = "done"
         /\ req[c].op \in GuardedRoutes \cup {"GET /auth/users"}
         /\ req[c].bearer # <<>>
         /\ req[c].bearer[1].sig = "valid")
        => /\ req[c].res.kind = "Ok" <=> Permitted(req[c].bearer[1].role, req[c].op)
           /\ req[c].res.kind = "Forbidden" <=> ~Permitted(req[c].bearer[1].role, req[c].op)

AccessDecisionSeen ==
    \E c, d \in Clients :
        /\ req[c].op = "GET /decorated" /\ req[c].pc = "done"
        /\ Len(required) = 2
        /\ req[c].res.kind = "Forbidden"
        /\ req[d].op = "GET /example/collaborator-content" /\ req[d].pc = "done"
        /\ req[d].res.kind = "Ok"

RoleGated ==
    {"GET /auth/users", "POST /auth/role", "GET /example/admin-only",
     "GET /example/collaborator-content"}

TokenValid(bearer) ==
    bearer # <<>> /\ bearer[1].sig = "valid" /\ now < bearer[1].exp

\* C10: on a role-gated route a request without a valid token (none, a bad
\* signature, expired) ends in Unauthorized, also when its role claim would not
\* do, and a request with a valid token whose role the route does not ask for
\* ends in Forbidden.
UnauthorizedThenForbidden ==
    [][\A c \in Clients : \A route \in RoleGated :
          Starts(c, route)
          => /\ ~TokenValid(req'[c].bearer)
                => (req'[c].pc = "done" /\ req'[c].res.kind = "Unauthorized")
             /\ (TokenValid(req'[c].bearer)
                 /\ req'[c].bearer[1].role \notin RequiredSet(route))
                => (req'[c].pc = "done" /\ req'[c].res.kind = "Forbidden")]_vars

UnauthorizedAndForbiddenSeen ==
    \E c, d \in Clients :
        /\ req[c].op \in RoleGated /\ req[c].pc = "done"
        /\ req[c].bearer # <<>> /\ req[c].bearer[1].sig = "valid"
        /\ req[c].bearer[1].exp <= now
        /\ req[c].bearer[1].role = VIEWER
        /\ req[c].res.kind = "Unauthorized"
        /\ req[d].op \in RoleGated /\ req[d].pc = "done"
        /\ req[d].res.kind = "Forbidden"

-----------------------------------------------------------------------------
(* Tokens over time and under role changes *)

\* the bearer token was signed by this process
Signed(bearer) == bearer # <<>> /\ bearer[1].sig = "valid"

\* C11: a token issued at time t passes verification at every time before
\* t + JwtExpiresIn and fails with Unauthorized from t + JwtExpiresIn on,
\* whatever happened to the account in between.
TokenLivesForTtl ==
    [][\A c \in Clients :
          (Starts(c, "GET /auth/profile") /\ Signed(req'[c].bearer))
          => LET t == req'[c].bearer[1]
             IN  /\ now < t.iat + JwtExpiresIn
                    => /\ req'[c].res.kind = "Ok"
                       /\ req'[c].res.users = <<[id |-> t.sub, email |-> t.email,
                                                 role |-> t.role]>>
                 /\ now >= t.iat + JwtExpiresIn
                    => req'[c].res.kind = "Unauthorized"]_vars

TokenExpiredAtTtl ==
    \E c \in Clients :
        /\ req[c].op = "GET /auth/profile" /\ req[c].pc = "done"
        /\ Signed(req[c].bearer)
        /\ now = req[c].bearer[1].iat + JwtExpiresIn
        /\ req[c].res.kind = "Unauthorized"

\* C12: authenticate ends in Unauthorized on every verification failure (no
\* token, bad signature, malformed, expired, an error raised by the verifier):
\* it surfaces no other error kind and lets through only a token that
\* verifies.
AuthenticateOnlyUnauthorized ==
    [][\A c \in Clients :
          Starts(c, "authenticate")
          => /\ req'[c].res.kind \in {"Ok", "Unauthorized"}
             /\ req'[c].res.kind = "Ok" => TokenValid(req'[c].bearer)]_vars

\* a request of client c hands out a token in this step
Issues(c) ==
    /\ req[c].pc # "done" \/ Free(c)
    /\ req'[c] # req[c]
    /\ req'[c].op \in {"register", "login"}
    /\ req'[c].pc = "done" /\ req'[c].res.kind = "Ok"

\* C13: a token issued by register or login carries the id and the email of
\* the account and the role stored for the account when the token is issued,
\* also when a role update of the account completes during the login.
TokenCarriesStoredRole ==
    [][\A c \in Clients :
          Issues(c)
          => LET t == req'[c].res.token[1]
             IN  /\ t.email = req'[c].dto.email
                 /\ \E i \in 1..Len(users') :
                        /\ users'[i].id = t.sub
                        /\ users'[i].email = t.email
                        /\ users'[i].role = t.role]_vars

\* the role stored for the account with this id, "" when there is none
StoredRole(id) == IF indexById(id) = 0 THEN "" ELSE users[indexById(id)].role

\* C14: a token issued before a role change still verifies and still decodes
\* to the role it was issued with, whatever role the store holds now, until
\* it expires; a login that reads the account after the change issues a token
\* with the role the store holds.
StaleTokenKeepsRole ==
    [][\A c \in Clients :
          /\ (Starts(c, "GET /auth/profile") /\ TokenValid(req'[c].bearer))
             => /\ req'[c].res.kind = "Ok"
                /\ req'[c].res.users[1].role = req'[c].bearer[1].role
          /\ (Compared(c) /\ req'[c].res.kind = "Ok")
             => LET t == req'[c].res.token[1]
                IN  (backend = "repository"
                        => req[c].local.snap[1].role = StoredRole(t.sub))
                    => t.role = StoredRole(t.sub)]_vars

StaleTokenSeen ==
    \E c, d \in Clients :
        /\ req[d].op = "updateUserRole" /\ req[d].pc = "done" /\ req[d].res.kind = "Ok"
        /\ req[c].op = "GET /auth/profile" /\ req[c].pc = "done"
        /\ req[c].res.kind = "Ok"
        /\ req[c].bearer[1].sub = req[d].userId
        /\ StoredRole(req[d].userId) = req[d].newRole
        /\ req[c].res.users[1].role # req[d].newRole
        /\ now < req[c].bearer[1].exp

\* the access decision as a function of the token, the time and the roles the
\* route asks for
Decision(bearer, time, roles) ==
    IF ~(bearer # <<>> /\ bearer[1].sig = "valid" /\ time < bearer[1].exp)
    THEN "Unauthorized"
    ELSE IF roles = {} \/ bearer[1].role \in roles THEN "allow" ELSE "Forbidden"

\* what the guards did with a request, read off its record: the handler behind
\* the guards runs exactly when they allow
GuardOutcome(r) ==
    IF r.res.kind = "Forbidden" THEN "Forbidden"
    ELSE IF r.res.kind = "Unauthorized" /\ r.res.message = "Invalid or expired token"
    THEN "Unauthorized"
    ELSE "allow"

\* C15: what the guards do with a request is a function of the token, the
\* clock and the roles of the route; it does not depend on the account store
\* and the guards leave the store as it is.
GuardIgnoresStore ==
    [][\A c \in Clients :
          \A route \in GuardedRoutes \cup {"GET /auth/users", "POST /auth/role"} :
              Starts(c, route)
              => /\ GuardOutcome(req'[c])
                        = Decision(req'[c].bearer, now, RequiredSet(route))
                 /\ (route # "POST /auth/role" \/ GuardOutcome(req'[c]) # "allow")
                        => users' = users]_vars

GuardIgnoresStoreSeen ==
    \E c, d \in Clients :
        /\ req[d].op = "POST /auth/role" /\ req[d].pc = "done" /\ req[d].res.kind = "Ok"
        /\ req[d].newRole = VIEWER
        /\ req[c].op = "GET /auth/users" /\ req[c].pc = "done" /\ req[c].res.kind = "Ok"
        /\ req[c].bearer[1].role = OWNER
        /\ req[c].bearer[1].sub = req[d].userId
        /\ Len(req[c].res.users) = 1
        /\ req[c].res.users[1].id = req[d].userId
        /\ req[c].res.users[1].role = VIEWER

-----------------------------------------------------------------------------
(* Role administration *)

\* C16: a role update with a well-formed id and a valid role, for which no
\* account has the id, ends with the error kind NotFound.
AbsentTargetNotFound ==
    \A c \in Clients :
        (/\ req[c].op = "updateUserRole" /\ req[c].pc = "done"
         /\ req[c].userId # "" /\ req[c].newRole \in UserRole
         /\ indexById(req[c].userId) = 0)
        => req[c].res.kind = "NotFound"

\* C17: a role update with an empty id or with a role outside UserRole ends
\* with BadRequest in its first segment, before the store is read or written,
\* whether or not the target exists, and leaves the store as it is; the empty
\* id is reported when both are wrong.
BadRequestBeforeStore ==
    [][\A c \in Clients :
          (/\ Starts(c, "updateUserRole")
           /\ (req'[c].userId = "" \/ req'[c].newRole \notin UserRole))
          => /\ req'[c].pc = "done"
             /\ req'[c].res.kind = "BadRequest"
             /\ req'[c].res.message = IF req'[c].userId = "" THEN "User ID is required"
                                      ELSE "Invalid role specified"
             /\ users' = users]_vars

BadRequestPrecedenceSeen ==
    \E c \in Clients :
        /\ req[c].op = "updateUserRole" /\ req[c].pc = "done"
        /\ req[c].userId = "" /\ req[c].newRole \notin UserRole
        /\ req[c].res.kind = "BadRequest"
        /\ req[c].res.message = "User ID is required"
        /\ Len(users) > 0

\* C18: a role update that finds its target sets the target's role to the new
\* role and its updatedAt to a time not before the old one; every other field
\* of the target and every other account stay as they are and no account is
\* added or removed; the read-back of the TypeORM revision changes nothing.
RoleUpdateFrame ==
    [][\A c \in Clients :
          /\ (/\ Starts(c, "updateUserRole")
              /\ req'[c].userId # "" /\ req'[c].newRole \in UserRole
              /\ indexById(req'[c].userId) # 0)
             => LET i == indexById(req'[c].userId)
                IN  /\ Len(users') = Len(users)
                    /\ users'[i].role = req'[c].newRole
                    /\ users'[i].updatedAt >= users[i].updatedAt
                    /\ users'[i].updatedAt <= now
                    /\ \A f \in (DOMAIN users[i]) \ {"role", "updatedAt"} :
                           users'[i][f] = users[i][f]
                    /\ DOMAIN users'[i] = DOMAIN users[i]
                    /\ \A k \in (1..Len(users)) \ {i} : users'[k] = users[k]
          /\ (req[c].pc = "updated" /\ req'[c].pc = "done") => users' = users]_vars

RoleUpdateSeen ==
    \E c \in Clients :
        /\ req[c].op = "updateUserRole" /\ req[c].pc = "done" /\ req[c].res.kind = "Ok"
        /\ Len(users) = 2
        /\ \E i, k \in 1..Len(users) :
               /\ i # k
               /\ users[i].id = req[c].userId
               /\ users[i].role = req[c].newRole
               /\ users[i].updatedAt > users[i].createdAt
               /\ users[k].role # req[c].newRole

\* C19: at the controller, a stored account's role changes only in a step in
\* which POST /auth/role is requested with a valid token whose role claim is
\* owner; POST /auth/role and GET /auth/users requested with a valid viewer or
\* collaborator token end in Forbidden, change nothing and return no account.
OwnerOnlyRoleChange ==
    [][/\ (\E i \in 1..Len(users) : users'[i].role # users[i].role)
          => \E c \in Clients :
                /\ Starts(c, "POST /auth/role")
                /\ TokenValid(req'[c].bearer)
                /\ req'[c].bearer[1].role = OWNER
       /\ \A c \in Clients : \A route \in {"GET /auth/users", "POST /auth/role"} :
             (/\ Starts(c, route)
              /\ TokenValid(req'[c].bearer)
              /\ req'[c].bearer[1].role \in {VIEWER, COLLABORATOR})
             => /\ req'[c].pc = "done"
                /\ req'[c].res.kind = "Forbidden"
                /\ req'[c].res.users = <<>>
                /\ users' = users]_vars

OwnerChangedRole ==
    \E c, d \in Clients :
        /\ req[c].op = "POST /auth/role" /\ req[c].pc = "done" /\ req[c].res.kind = "Ok"
        /\ req[c].bearer[1].role = OWNER
        /\ req[c].newRole = COLLABORATOR
        /\ StoredRole(req[c].userId) = COLLABORATOR
        /\ req[d].op = "POST /auth/role" /\ req[d].pc = "done"
        /\ req[d].res.kind = "Unauthorized"
        /\ req[d].res.message = "Invalid or expired token"

-----------------------------------------------------------------------------
(* Input validation *)

\* strings that are not of e-mail shape
MalformedEmails == {"a.x.com", "a@x", ""}

\* the request of client c is turned down by the pipe in this step
Rejected(c) ==
    /\ req'[c].pc = "done"
    /\ req'[c].res.kind = "BadRequest"
    /\ req'[c].res.token = <<>>
    /\ req'[c].res.users = <<>>
    /\ users' = users

\* C20: a register or login request whose email is not of e-mail shape or
\* whose password has fewer than 6 characters, and a register request with an
\* empty first or last name, ends with BadRequest whatever the store holds:
\* no account is created and no token is issued.
InvalidInputRejected ==
    [][\A c \in Clients :
          /\ \A body \in RegisterBodies :
                (/\ registerRoute(c, body)
                 /\ \/ body.email \in MalformedEmails
                    \/ Len(body.password) < 6
                    \/ body.firstName = ""
                    \/ body.lastName = "")
                => Rejected(c)
          /\ \A body \in LoginBodies :
                (/\ loginRoute(c, body)
                 /\ \/ body.email \in MalformedEmails
                    \/ Len(body.password) < 6)
                => Rejected(c)]_vars

InvalidInputSeen ==
    \E c, d \in Clients :
        /\ req[c].op = "POST /auth/register" /\ req[c].pc = "done"
        /\ req[c].res.kind = "BadRequest"
        /\ EmailStored(req[c].dto.email)
        /\ req[d].op = "POST /auth/login" /\ req[d].pc = "done"
        /\ req[d].res.kind = "BadRequest"
        /\ EmailStored(req[d].dto.email)
        /\ Len(req[d].dto.password) = 5

-----------------------------------------------------------------------------
(* The account directory, continued *)

\* C21: in every reachable state no two stored accounts have the same id, also
\* when two accounts are registered at one reading of the clock.
UniqueIds ==
    \A i, j \in 1..Len(users) : i # j => users[i].id # users[j].id

\* C22: the password check of a login answers true exactly when the plaintext
\* is the one the account was registered with, for every pair of plaintexts,
\* and a mismatch ends the login with Unauthorized and no other error.
HashRoundTrip ==
    [][\A c, d \in Clients :
          (/\ Compared(c)
           /\ req[d].op = "register" /\ req[d].pc = "done" /\ req[d].res.kind = "Ok"
           /\ req[d].dto.email = req[c].dto.email)
          => /\ req'[c].res.kind = "Ok" <=> req[c].dto.password = req[d].dto.password
             /\ req'[c].res.kind \in {"Ok", "Unauthorized"}]_vars

ListAllInOrder ==
    [][\A c \in Clients :
          Starts(c, "getAllUsers")
          => /\ req'[c].res.kind = "Ok"
             /\ Len(req'[c].res.users) = Len(users)
             /\ \A k \in 1..Len(users) :
                    req'[c].res.users[k] =
                        [f \in (DOMAIN users[k]) \ {"password"} |-> users[k][f]]]_vars

\* C25: an account, once created, is in the store in every later state with
\* the id, the email and the password hash it was created with: no step
\* removes an account or rewrites one of the three fields.
AccountsPersist ==
    [][/\ Len(users') >= Len(users)
       /\ \A i \in 1..Len(users) :
             /\ users'[i].id = users[i].id
             /\ users'[i].email = users[i].email
             /\ users'[i].password = users[i].password]_vars

AccountsPersistSeen ==
    \E c, d \in Clients :
        /\ Len(users) = 2
        /\ req[c].op = "updateUserRole" /\ req[c].pc = "done" /\ req[c].res.kind = "Ok"
        /\ req[c].userId = users[1].id
        /\ users[1].role = req[c].newRole
        /\ req[d].op = "login" /\ req[d].pc = "done" /\ req[d].res.kind = "Ok"
        /\ req[d].dto.email = users[1].email
        /\ req[d].res.token[1].role = req[c].newRole
        /\ req[d].res.token[1].role # VIEWER

\* C26: a login, whether it succeeds or fails, leaves the store as it was: no
\* account is added, removed or modified, in either of its segments.
LoginLeavesStore ==
    [][\A c \in Clients :
          (Starts(c, "login") \/ Compared(c)) => (users' = users /\ uuids' = uuids)]_vars

LoginBothWaysSeen ==
    \E c, d \in Clients :
        /\ Len(users) = 2
        /\ req[c].op = "login" /\ req[c].pc = "done" /\ req[c].res.kind = "Ok"
        /\ req[d].op = "login" /\ req[d].pc = "done" /\ req[d].res.kind = "Unauthorized"
        /\ EmailStored(req[d].dto.email)

\* C27: every stored account's role and every issued token's role claim is
\* one of owner, collaborator, viewer, and a stored role changes only in a
\* step of a role update that does not fail, to the role that update names.
RolesClosed ==
    /\ \A i \in 1..Len(users) : users[i].role \in UserRole
    /\ [][/\ \A i \in 1..Len(users') : users'[i].role \in UserRole
          /\ \A c \in Clients : \A k \in 1..Len(req'[c].res.token) :
                req'[c].res.token[k].role \in UserRole
          /\ \A i \in 1..Len(users) :
                users'[i].role # users[i].role
                => \E c \in Clients :
                      /\ Starts(c, "updateUserRole")
                      /\ req'[c].userId = users[i].id
                      /\ req'[c].newRole = users'[i].role
                      /\ req'[c].pc = "updated" \/ req'[c].res.kind = "Ok"]_vars

RolesClosedSeen ==
    \E c, d \in Clients :
        /\ req[c].op = "updateUserRole" /\ req[c].pc = "done"
        /\ req[c].newRole \notin UserRole
        /\ indexById(req[c].userId) # 0
        /\ req[c].res.kind = "BadRequest"
        /\ req[d].op = "register" /\ req[d].pc = "done" /\ req[d].res.kind = "Ok"
        /\ req[d].res.users[1].id = req[c].userId
        /\ StoredRole(req[c].userId) = COLLABORATOR

-----------------------------------------------------------------------------
(* The boundary, from an empty store *)

\* the store descends from the empty store: the account an operator seeds is
\* the only one with the operator's email, and accounts are never removed
FromEmptyStore == \A i \in 1..Len(users) : users[i].email # OwnerEmail

\* C28: when the store starts empty and only the routes are used, every stored
\* account has role viewer in every reachable state, and every request to
\* GET /auth/users and POST /auth/role is turned down by the guards.
OnlyViewersFromEmpty ==
    /\ [](FromEmptyStore => \A i \in 1..Len(users) : users[i].role = VIEWER)
    /\ [][\A c \in Clients : \A route \in {"GET /auth/users", "POST /auth/role"} :
             (FromEmptyStore /\ Starts(c, route))
             => /\ req'[c].pc = "done"
                /\ req'[c].res.kind \in {"Unauthorized", "Forbidden"}
                /\ users' = users]_vars

ViewerTurnedDown ==
    \E c, d \in Clients :
        /\ FromEmptyStore /\ Len(users) > 0
        /\ req[d].op = "login" /\ req[d].pc = "done" /\ req[d].res.kind = "Ok"
        /\ req[c].op = "POST /auth/role" /\ req[c].pc = "done"
        /\ req[c].bearer = req[d].res.token
        /\ req[c].userId = req[c].bearer[1].sub
        /\ req[c].newRole = OWNER
        /\ req[c].res.kind = "Forbidden"

\* C29: a role update that succeeds hands back an account whose id is the
\* target and whose role is the new role, also when another role update of
\* the target lands between its write and its read-back.
ReadBackShowsNewRole ==
    \A c \in Clients :
        (req[c].op = "updateUserRole" /\ req[c].pc = "done" /\ req[c].res.kind = "Ok")
        => /\ Len(req[c].res.users) = 1
           /\ req[c].res.users[1].id = req[c].userId
           /\ req[c].res.users[1].role = req[c].newRole

\* C30: every token a response carries names, as its subject, the id of an
\* account that is in the store, so a token is issued after its account was
\* persisted; a register or login that fails carries no token.
TokenAfterPersist ==
    /\ [](\A c \in Clients : \A k \in 1..Len(req[c].res.token) :
             /\ req[c].res.kind = "Ok"
             /\ \E i \in 1..Len(users) :
                   /\ users[i].id = req[c].res.token[k].sub
                   /\ users[i].email = req[c].res.token[k].email)
    /\ [][\A c \in Clients :
             (/\ req'[c] # req[c]
              /\ req'[c].op \in {"register", "login"}
              /\ req'[c].pc = "done"
              /\ req'[c].res.kind # "Ok")
             => req'[c].res.token = <<>>]_vars

TokenAfterPersistSeen ==
    \E c, d \in Clients :
        /\ req[c].op = "register" /\ req[c].pc = "done" /\ req[c].res.kind = "Ok"
        /\ req[c].res.token[1].sub = users[Len(users)].id
        /\ req[d].op = "register" /\ req[d].pc = "done"
        /\ req[d].res.kind \in {"Conflict", "InternalServerError"}
        /\ req[d].res.token = <<>>

====
